---- MODULE Spec2Model ----
(***************************************************************************)
(* The conversion queue of the image converter (src/src/app/page.tsx).     *)
(*                                                                         *)
(* page.tsx holds two revisions of the MultiFormatConverter component:     *)
(*   variant 1 (lines 1-443):   result is a Blob, explicit isConverting    *)
(*                              guard, zip export;                         *)
(*   variant 2 (lines 445-885): progress-tracking entries, result carries  *)
(*                              an object URL, resetConverter.             *)
(* The variant is fixed at Init and never changes.                         *)
(*                                                                         *)
(* FileItem objects are mutable and shared between the React state array   *)
(* and the updatedFiles array of a running bulk pass, so the model keeps   *)
(* a heap of objects and stores arrays as sequences of references.         *)
(*                                                                         *)
(* Granularity: one step is one run-to-completion piece of JavaScript (an  *)
(* event handler up to its first await, or the continuation after an       *)
(* await); React flushes the state updates of a step before the next user  *)
(* event is dispatched, so every handler closes over the state left by     *)
(* the previous step.  What a running pass captured when it was started    *)
(* (updatedFiles, outputFormat) is kept in the pass record.                *)
(***************************************************************************)
EXTENDS Integers, Sequences, FiniteSets, TLC

\* ------------------------------------------------------------------ bounds
\* FileItem objects ever created
MaxFiles == 2
\* candidates handed to one handleFilesSelect call
MaxBatch == 2
\* firings of the progress timer during one conversion (variant 2)
MaxTicks == 1
\* handleConvertAll invocations suspended at an await at the same time
MaxPasses == 2
\* handleDownloadAll invocations with work still to come at the same time
MaxExports == 1
\* live object URLs of the results of one entry
MaxResultUrls == 2
\* characters of a file name handed to the file name derivation
MaxNameLen == 5
\* number of values Math.random() is drawn from when ids may repeat
MaxIds == 2
\* history records created in a run
MaxRecords == 3
\* toasts added in a run
MaxToasts == 3
\* the canvas of the explored games, smaller than the page's 220 x 400
CanvasWidth == 44
CanvasHeight == 50
\* enemies on the canvas at a time, enemies spawned and bullets shot in a game
MaxEnemies == 2
MaxSpawns == 4
MaxShots == 1

\* ------------------------------------------------------ program constants
\* Math.min(fileItem.progress + 10, 90)
ProgressStep == 10
ProgressCap == 90
\* fileItem.progress = 100
ProgressDone == 100

\* --------------------------------------------------------------- strings
\* Strings the code inspects are sequences of characters.
ImagePrefix == <<"i", "m", "a", "g", "e", "/">>
TypeJpeg == <<"i", "m", "a", "g", "e", "/", "j", "p", "e", "g">>
TypePng == <<"i", "m", "a", "g", "e", "/", "p", "n", "g">>
TypeText == <<"t", "e", "x", "t", "/", "p", "l", "a", "i", "n">>

\* String.prototype.startsWith
StartsWith(s, p) == Len(s) >= Len(p) /\ SubSeq(s, 1, Len(p)) = p

\* The File objects a user can drop: two images whose names differ after the
\* first dot only, and one text file.
Candidates ==
  { [name |-> <<"a", ".", "j", "p", "g">>, type |-> TypeJpeg],
    [name |-> <<"a", ".", "p", "n", "g">>, type |-> TypePng],
    [name |-> <<"n", ".", "t", "x", "t">>, type |-> TypeText] }

\* FileList values: non-empty batches (handleDrop / handleFileInputChange
\* call handleFilesSelect only when files.length > 0).
Batches == UNION { [1..n -> Candidates] : n \in 1..MaxBatch }

\* type OutputFormat; the user's choices are drawn from two of the four.
OutputFormats == {"webp", "png"}

Variants == {1, 2}

\* the characters of an OutputFormat value
FormatName(format) ==
  CASE format = "webp" -> <<"w", "e", "b", "p">>
    [] format = "avif" -> <<"a", "v", "i", "f">>
    [] format = "jpeg" -> <<"j", "p", "e", "g">>
    [] format = "png" -> <<"p", "n", "g">>

\* String.prototype.toLowerCase on the letters that occur
ToLowerCase(s) ==
  [i \in DOMAIN s |->
     CASE s[i] = "A" -> "a"
       [] s[i] = "B" -> "b"
       [] OTHER -> s[i]]

\* String.prototype.split(sep): the pieces between the separators, in order
RECURSIVE Split(_, _)
Split(s, sep) ==
  IF \A i \in DOMAIN s : s[i] # sep
  THEN <<s>>
  ELSE LET k == CHOOSE i \in DOMAIN s :
                  s[i] = sep /\ \A j \in 1..(i - 1) : s[j] # sep
       IN <<SubSeq(s, 1, k - 1)>> \o Split(SubSeq(s, k + 1, Len(s)), sep)

\* faulty variation: the name is cut at its last dot
getOutputFileNameLastDot(originalName, format) ==
  LET parts == Split(originalName, ".")
      stem == IF Len(parts) = 1 THEN originalName
              ELSE SubSeq(originalName, 1,
                          Len(originalName) - Len(parts[Len(parts)]) - 1)
  IN stem \o <<".">> \o ToLowerCase(FormatName(format))

\* const nameWithoutExtension = originalName.split('.')[0]
\* return `${nameWithoutExtension}.${outputFormat.toLowerCase()}`
getOutputFileName(originalName, format) ==
  Split(originalName, ".")[1] \o <<".">> \o ToLowerCase(FormatName(format))

\* second revision: `${file.name.split(".")[0]}.${format}`
ResultFileName(originalName, format) ==
  Split(originalName, ".")[1] \o <<".">> \o FormatName(format)

\* `image/${format}`
ImageType(format) == ImagePrefix \o FormatName(format)

\* setTimeout(..., toast.duration || 5000)
DefaultDuration == 5000

\* gameStateRef: player, enemy and bullet sizes and speeds, in pixels
PlayerWidth == 20
PlayerHeight == 30
PlayerSpeed == 8
PlayerBottom == 50
StartLives == 3
EnemySize == 20
EnemySpeed == 2
BulletWidth == 4
BulletHeight == 10
BulletSpeed == 7
HitScore == 10

\* ---------------------------------------------------------------- values
NoResult == [fmt |-> "none"]
NoError == [kind |-> "none", name |-> <<>>]
\* `${file.name} is not a valid image file`
RejectionMessage(file) == [kind |-> "is not a valid image file", name |-> file.name]
\* new Error(msg).message
FailureMessage(msg) == [kind |-> msg, name |-> <<>>]
\* no anchor was clicked
NoDownload == [name |-> <<>>, type |-> <<>>, fmt |-> "none", entries |-> <<>>]
\* the durable storage key of the history: absent, or holding a text
NoKey == [state |-> "absent", text |-> <<>>]
\* the history store of a first start: no record, nothing stored
EmptyStore == [items |-> <<>>, key |-> NoKey, refs |-> {}, nextId |-> 1]
\* gameStateRef.current as created and as handleRestart resets it; spawned
\* and shots count the enemies spawned and the bullets shot since then
\* (spawned = 0 stands for lastEnemySpawn = 0)
NewGameState ==
  [player |-> [x |-> 0, y |-> 0, lives |-> StartLives, score |-> 0],
   enemies |-> <<>>, bullets |-> <<>>, spawned |-> 0, shots |-> 0]
\* the SpaceShooter after its first render
NewGame ==
  [gameStarted |-> FALSE, isPaused |-> FALSE, gameOver |-> FALSE,
   score |-> 0, lives |-> StartLives, ref |-> NewGameState]
\* no call of the file name derivation is looked at
NoProbe == [name |-> <<>>, format |-> "none", out |-> <<>>, done |-> FALSE]

VARIABLES
  variant,        \* which revision of the component runs
  heap,           \* FileItem objects by reference (1..Len(heap))
  selectedFiles,  \* React state: sequence of references
  outputFormat,   \* React state
  isConverting,   \* React state
  error,          \* React state: the alert's message, NoError for null
  passes,         \* running handleConvertAll invocations (suspended at an await)
  lastOp,         \* the step that led to this state
  exports,        \* handleDownloadAll invocations with work still to come
  objectUrls,     \* live object URLs of source files: the file each is bound to
  resultUrls,     \* live object URLs of result blobs: <<entry, n>> for the n-th
                  \* URL made for a result of that entry
  intervals,      \* live setInterval timers of the simulated progress
  historyStore,   \* the history list, its durable storage key and the
                  \* download references its records own
  toastProvider,  \* ToastProvider: its toasts state, the live auto-dismiss
                  \* timers of the mounted ToastComponents, the toasts made
  game,           \* SpaceShooter: its React state and gameStateRef.current
  probe           \* one call of the file name derivation: arguments and value

vars == <<variant, heap, selectedFiles, outputFormat, isConverting, error,
          passes, lastOp, exports, objectUrls, resultUrls, intervals,
          historyStore, toastProvider, game, probe>>

Refs == 1..Len(heap)

\* lastOp: op names the step; batch its FileList; target the entry it acted
\* on (0: none); ok whether it succeeded; ended whether a bulk pass returned
\* in this step, and clean whether no conversion of that pass had failed;
\* restored the entries a pass's setSelectedFiles([...updatedFiles]) put back
\* into a queue that no longer held them; download what the step's anchor
\* click saved, if it clicked one; bulk the number of entries the Download All
\* behind the step worked on, and serialized whether zip.generateAsync had
\* resolved before the click; env how the convertImage call the step settled
\* came to its end, and revoked the revokeObjectURL calls it had made; failed
\* whether an export ran into its catch block; path how a load of the history
\* found its storage key, and released the download references a history
\* step released; id the toast id a toast step was called with.
Op(name) ==
  [op |-> name, batch |-> <<>>, target |-> 0, ok |-> TRUE, ended |-> FALSE,
   clean |-> FALSE, restored |-> {}, download |-> NoDownload, bulk |-> 0,
   serialized |-> FALSE, revoked |-> 0, env |-> "none", failed |-> FALSE,
   path |-> "none", released |-> {}, id |-> ""]

\* ------------------------------------------------------------ sequences
Range(s) == { s[i] : i \in 1..Len(s) }

Last(s) == s[Len(s)]

\* the component after its first render
Mounted ==
  /\ variant \in Variants
  /\ heap = <<>>
  /\ selectedFiles = <<>>
  /\ outputFormat = "webp"
  /\ isConverting = FALSE
  /\ error = NoError
  /\ passes = <<>>
  /\ lastOp = Op("init")
  /\ exports = <<>>
  /\ objectUrls = <<>>
  /\ resultUrls = {}
  /\ intervals = {}
  /\ historyStore = EmptyStore
  /\ toastProvider = [toasts |-> <<>>, timers |-> {}, made |-> 0]
  /\ game = NewGame

Init == Mounted /\ probe = NoProbe

\* ------------------------------------------------------ handleFilesSelect
\* faulty variation: any declared media type is taken for an image
IsAnyMediaType(file) == Len(file.type) > 0

\* file.type.startsWith("image/")
IsValidImage(file) == StartsWith(file.type, ImagePrefix)

\* validFiles: the accepted candidates, in candidate order
ValidFiles(files) == SelectSeq(files, IsValidImage)

\* the values handed to setError by one handleFilesSelect call, in call order:
\* one message per rejected candidate, then the final setError(null)
IntakeErrorWrites(files) ==
  LET Rejected(f) == ~IsValidImage(f)
      rej == SelectSeq(files, Rejected)
  IN [i \in 1..Len(rej) |-> RejectionMessage(rej[i])] \o <<NoError>>

\* const fileItem = { file, id, status: "pending" } (variant 2: progress: 0)
\* id is Math.random().toString(36).substr(2, 9).
NewFileItem(file, id) ==
  [file |-> file, id |-> id, status |-> "pending", result |-> NoResult,
   error |-> NoError, progress |-> 0]

\* the values Math.random().toString(36).substr(2, 9) is drawn from in the
\* runs of IdSpec
RandomIds == 1..MaxIds

\* a batch whose ids differ from each other and from every id handed out
\* before
FreshIds(k) == [i \in 1..k |-> Len(heap) + i]

\* handleFilesSelect(files), with ids[i] the value Math.random() gives for
\* the i-th valid file
handleFilesSelectWith(files, ids) ==
  LET valid == ValidFiles(files)
      n == Len(heap)
      items == [i \in 1..Len(valid) |-> NewFileItem(valid[i], ids[i])]
  IN /\ n + Len(valid) <= MaxFiles
     /\ heap' = heap \o items
     \* setSelectedFiles((prev) => [...prev, ...validFiles])
     /\ selectedFiles' = selectedFiles \o [i \in 1..Len(valid) |-> n + i]
     \* the last setError of the batch is what the next render shows
     /\ error' = Last(IntakeErrorWrites(files))
     /\ lastOp' = [Op("handleFilesSelect") EXCEPT !.batch = files]
     /\ UNCHANGED <<variant, game, toastProvider, intervals, historyStore, resultUrls, objectUrls, exports, probe, outputFormat, isConverting, passes>>

\* handleFilesSelect(files) when Math.random() repeats no value
handleFilesSelect(files) ==
  handleFilesSelectWith(files, FreshIds(Len(ValidFiles(files))))

\* -------------------------------------------------------------- removeFile
\* the X button is rendered for the entries of the queue whose status is
\* "pending"
RemoveShown(o) == o \in Range(selectedFiles) /\ heap[o].status = "pending"

\* setSelectedFiles((prev) => prev.filter((item) => item.id !== id))
removeFile(id) ==
  LET Keep(o) == heap[o].id # id
  IN /\ selectedFiles' = SelectSeq(selectedFiles, Keep)
     /\ lastOp' = [Op("removeFile") EXCEPT !.target = id]
     /\ UNCHANGED <<variant, game, toastProvider, intervals, historyStore, resultUrls, objectUrls, exports, probe, heap, outputFormat, isConverting, error, passes>>

ClickRemove == \E o \in Refs : RemoveShown(o) /\ removeFile(heap[o].id)

\* --------------------------------------------------------- setOutputFormat
\* variant 1 renders the Select inside the queue block, variant 2 always
FormatSelectShown == variant = 2 \/ Len(selectedFiles) > 0

SelectFormat ==
  \E f \in OutputFormats :
    /\ FormatSelectShown
    /\ f # outputFormat
    /\ outputFormat' = f
    /\ lastOp' = Op("setOutputFormat")
    /\ UNCHANGED <<variant, game, toastProvider, intervals, historyStore, resultUrls, objectUrls, exports, probe, heap, selectedFiles, isConverting, error, passes>>

\* ------------------------------------------------------------ convertImage
\* How one convertImage call can end: the stage that fails, if any.
\*   "reader.onerror"  the FileReader fails (variant 2 only)
\*   "img.onerror"     the image does not load
\*   "no context"      canvas.getContext("2d") returns null
\*   "no blob"         canvas.toBlob hands back null
\* The explored runs draw from success and a failed load.
Environments == {"ok", "img.onerror"}

\* Every ending of the first revision's convertImage, which the runs of
\* ConverterSpec draw from.
ConverterEnvironments == {"ok", "img.onerror", "no context", "no blob"}

\* URL.createObjectURL(file): one more live URL, bound to the file of entry o
createObjectURL(urls, o) == Append(urls, o)

\* URL.revokeObjectURL(objectUrl): the URL is live no longer; revoking a URL
\* that is not live does nothing
revokeObjectURL(urls, o) ==
  LET at == { k \in 1..Len(urls) : urls[k] = o }
  IN IF at = {} THEN urls
     ELSE LET k == CHOOSE k \in at : \A l \in at : k <= l
          IN SubSeq(urls, 1, k - 1) \o SubSeq(urls, k + 1, Len(urls))

\* variant 1: const objectUrl = URL.createObjectURL(file) as the call starts;
\* variant 2 reads the file through a FileReader and creates no URL for it
convertImageStart(v, urls, o) ==
  IF v = 1 THEN createObjectURL(urls, o) ELSE urls

\* The revokeObjectURL calls a settled convertImage has made on its objectUrl:
\* the first statement of img.onload (which the context and encode failures
\* come after) and the first statement of img.onerror.
Revocations(v, env) ==
  IF v = 1 /\ env \in {"ok", "img.onerror", "no context", "no blob"}
  THEN 1 ELSE 0

\* faulty variation: img.onload revokes only once it has a canvas context
convertImageLateRevoke(v, file, format, env) ==
  LET revoked == IF env = "no context" THEN 0 ELSE Revocations(v, env)
  IN CASE env = "ok" ->
            [ok |-> TRUE,
             result |-> IF v = 1 THEN [fmt |-> format]
                        ELSE [fmt |-> format,
                              fileName |-> ResultFileName(file.name, format)],
             msg |-> NoError, revoked |-> revoked]
       [] env = "img.onerror" ->
            [ok |-> FALSE, result |-> NoResult,
             msg |-> FailureMessage("Failed to load image"),
             revoked |-> revoked]
       [] OTHER ->
            [ok |-> FALSE, result |-> NoResult,
             msg |-> FailureMessage(IF env = "no blob" THEN "Conversion failed"
                                    ELSE IF env = "reader.onerror"
                                    THEN "Failed to read file"
                                    ELSE IF v = 1
                                    THEN "Could not get canvas context"
                                    ELSE "Failed to get canvas context"),
             revoked |-> revoked]

\* variant 2, in the toBlob callback: const url = URL.createObjectURL(blob),
\* kept in the result; variant 1 resolves with the blob alone
convertImageEnd(v, urls, o, ok) ==
  IF v = 2 /\ ok
  THEN urls \cup {<<o, 1 + Cardinality({ u \in urls : u[1] = o })>>}
  ELSE urls

\* The settled promise: resolve(blob), the image encoded as `image/${format}`
\* (second revision: resolve({ blob, url, fileName, ... })), or
\* reject(new Error(msg)); revoked counts the revokeObjectURL calls made on
\* the way.
convertImage(v, file, format, env) ==
  CASE env = "ok" ->
         [ok |-> TRUE,
          result |-> IF v = 1 THEN [fmt |-> format]
                     ELSE [fmt |-> format,
                           fileName |-> ResultFileName(file.name, format)],
          msg |-> NoError, revoked |-> Revocations(v, env)]
    [] env = "img.onerror" ->
         [ok |-> FALSE, result |-> NoResult,
          msg |-> FailureMessage("Failed to load image"),
          revoked |-> Revocations(v, env)]
    [] env = "reader.onerror" ->
         [ok |-> FALSE, result |-> NoResult,
          msg |-> FailureMessage("Failed to read file"),
          revoked |-> Revocations(v, env)]
    [] env = "no context" ->
         [ok |-> FALSE, result |-> NoResult,
          msg |-> FailureMessage(IF v = 1 THEN "Could not get canvas context"
                                 ELSE "Failed to get canvas context"),
          revoked |-> Revocations(v, env)]
    [] env = "no blob" ->
         [ok |-> FALSE, result |-> NoResult,
          msg |-> FailureMessage("Conversion failed"),
          revoked |-> Revocations(v, env)]

\* -------------------------------------------------------- handleConvertAll
\* faulty variation: the loop does not skip completed entries
NextIndexNoSkip(h, files, from) == IF from <= Len(files) THEN from ELSE 0

\* faulty variation: the loop works on pending entries only
NextIndexPendingOnly(h, files, from) ==
  LET todo == { j \in from..Len(files) : h[files[j]].status = "pending" }
  IN IF todo = {} THEN 0 ELSE CHOOSE j \in todo : \A k \in todo : j <= k

\* for (const fileItem of updatedFiles) { if (fileItem.status === "completed")
\* continue ... }: the index of the next entry the loop works on, from index
\* `from` on; 0 when the loop runs off the end.
NextIndex(h, files, from) ==
  LET todo == { j \in from..Len(files) : h[files[j]].status # "completed" }
  IN IF todo = {} THEN 0 ELSE CHOOSE j \in todo : \A k \in todo : j <= k

\* faulty variation: every entry still to do is marked converting at once
BeginEntryAll(h, o) ==
  [r \in DOMAIN h |->
     IF h[r].status # "completed"
     THEN [h[r] EXCEPT !.status = "converting", !.progress = 0]
     ELSE h[r]]

\* fileItem.status = "converting" (variant 2: fileItem.progress = 0), then the
\* call of convertImage(fileItem.file, outputFormat)
BeginEntry(h, o) ==
  [h EXCEPT ![o].status = "converting",
            ![o].progress = 0]

\* faulty variation: a failed entry goes back to pending
SettleEntryRequeue(v, item, outcome) ==
  IF outcome.ok
  THEN [item EXCEPT !.result = outcome.result,
                    !.status = "completed",
                    !.progress = IF v = 2 THEN ProgressDone ELSE @]
  ELSE [item EXCEPT !.error = outcome.msg,
                    !.status = "pending",
                    !.progress = 0]

\* faulty variation: the catch block always stores its fallback text
SettleEntryFallbackMessage(v, item, outcome) ==
  IF outcome.ok
  THEN [item EXCEPT !.result = outcome.result,
                    !.status = "completed",
                    !.progress = IF v = 2 THEN ProgressDone ELSE @]
  ELSE [item EXCEPT !.error = FailureMessage("Conversion failed"),
                    !.status = "error",
                    !.progress = 0]

\* the try/catch around the awaited convertImage call
SettleEntry(v, item, outcome) ==
  IF outcome.ok
  THEN [item EXCEPT !.result = outcome.result,
                    !.status = "completed",
                    !.progress = IF v = 2 THEN ProgressDone ELSE @]
  ELSE [item EXCEPT !.error = outcome.msg,
                    !.status = "error",
                    !.progress = 0]

RemoveAt(s, i) == SubSeq(s, 1, i - 1) \o SubSeq(s, i + 1, Len(s))

\* faulty variation: the flag is left set when the loop is over
ConvertingAfterPassStuck == TRUE

\* setIsConverting(false) after the loop
ConvertingAfterPass == FALSE

\* a timer handle no live timer has
NewHandle(ivs) ==
  CHOOSE n \in 1..(Cardinality(ivs) + 1) : \A iv \in ivs : iv.id # n

\* variant 2: const progressInterval = setInterval(() => { ... }, 100); the
\* callback holds fileItem and updatedFiles.  ticks counts its runs.
setInterval(v, ivs, id, o, files) ==
  IF v = 2
  THEN ivs \cup {[id |-> id, entry |-> o, files |-> files, ticks |-> 0]}
  ELSE ivs

\* faulty variation: the finally block leaves the timer running
clearIntervalMissing(ivs, id) == ivs

\* clearInterval(progressInterval)
clearInterval(ivs, id) == { iv \in ivs : iv.id # id }

\* The loop from index `from` on, up to the next await or the end of the
\* handler.  `i` is the pass's place in passes (Len(passes) + 1 for a pass
\* being started), `sel` the queue as the earlier setSelectedFiles calls of
\* this step leave it, `urls` the live object URLs and `ivs` the live timers
\* likewise.
RunLoop(h, urls, ivs, p, from, i, sel, op) ==
  LET j == NextIndex(h, p.files, from)
  IN IF j = 0
     THEN \* setIsConverting(false)
          /\ heap' = h
          /\ selectedFiles' = sel
          /\ isConverting' = ConvertingAfterPass
          /\ passes' = RemoveAt(passes, i)
          /\ objectUrls' = urls
          /\ intervals' = ivs
          /\ lastOp' = [op EXCEPT !.ended = TRUE, !.clean = ~p.failed]
     ELSE \* setSelectedFiles([...updatedFiles]); await convertImage(...)
          /\ heap' = BeginEntry(h, p.files[j])
          /\ objectUrls' = convertImageStart(variant, urls, p.files[j])
          /\ selectedFiles' = p.files
          /\ isConverting' = TRUE
          /\ LET id == IF variant = 2 THEN NewHandle(ivs) ELSE 0
                 q == [p EXCEPT !.cur = j, !.progressInterval = id,
                                !.skipped = @ + (j - from)]
             IN /\ passes' = IF i > Len(passes) THEN Append(passes, q)
                             ELSE [passes EXCEPT ![i] = q]
                /\ intervals' = setInterval(variant, ivs, id, p.files[j],
                                            p.files)
          /\ lastOp' = op

\* the handler's own early return
ConvertAllReturnsEarly ==
  IF variant = 1 THEN isConverting ELSE Len(selectedFiles) = 0

handleConvertAll ==
  IF ConvertAllReturnsEarly
  THEN /\ lastOp' = [Op("handleConvertAll") EXCEPT !.ok = FALSE]
       /\ UNCHANGED <<variant, game, toastProvider, intervals, historyStore, resultUrls, objectUrls, exports, probe, heap, selectedFiles, outputFormat, isConverting,
                      error, passes>>
  ELSE \* setIsConverting(true); setError(null);
       \* const updatedFiles = [...selectedFiles]
       /\ error' = NoError
       /\ RunLoop(heap, objectUrls, intervals,
                  [files |-> selectedFiles, cur |-> 0, format |-> outputFormat,
                   progressInterval |-> 0, failed |-> FALSE, skipped |-> 0],
                  1, Len(passes) + 1, selectedFiles,
                  Op("handleConvertAll"))
       /\ UNCHANGED <<variant, game, toastProvider, historyStore, resultUrls, exports, probe, outputFormat>>

\* <Button onClick={handleConvertAll} disabled={isConverting}>, rendered
\* inside the queue block (selectedFiles.length > 0)
ConvertAllShown == Len(selectedFiles) > 0

ConvertAllDisabled == isConverting

\* The user presses Convert All; a disabled button dispatches no click.
ClickConvertAll ==
  /\ ConvertAllShown
  /\ IF ConvertAllDisabled
     THEN /\ lastOp' = Op("click on disabled Convert All")
          /\ UNCHANGED <<variant, game, toastProvider, intervals, historyStore, resultUrls, objectUrls, exports, probe, heap, selectedFiles, outputFormat,
                         isConverting, error, passes>>
     ELSE handleConvertAll

\* faulty variation: the settled entry is stored into the slot the queue
\* now has at the pass's index
WriteBackBySlot(h, p, item) ==
  IF p.cur <= Len(selectedFiles)
  THEN [h EXCEPT ![selectedFiles[p.cur]] = item]
  ELSE h

\* fileItem.result = ...; fileItem.status = ...: the writes go through the
\* loop variable, a reference to the object of the pass's snapshot
WriteBack(h, p, item) == [h EXCEPT ![p.files[p.cur]] = item]

\* The awaited convertImage call of pass i settles and the handler resumes.
Settle(i, env) ==
  LET p == passes[i]
      o == p.files[p.cur]
      outcome == convertImage(variant, heap[o].file, p.format, env)
      h == WriteBack(heap, p, SettleEntry(variant, heap[o], outcome))
      urls == IF outcome.revoked = 0 THEN objectUrls
              ELSE revokeObjectURL(objectUrls, o)
      ivs == clearInterval(intervals, p.progressInterval)
  IN \* the explored runs make at most MaxResultUrls result URLs per entry
     /\ (variant = 2 /\ outcome.ok) =>
          Cardinality({ u \in resultUrls : u[1] = o }) < MaxResultUrls
     /\ RunLoop(h, urls, ivs, [p EXCEPT !.failed = @ \/ ~outcome.ok],
                p.cur + 1, i, p.files,
                [Op("settle") EXCEPT !.target = o, !.ok = outcome.ok,
                                     !.revoked = outcome.revoked,
                                     !.env = env,
                                     !.restored = Range(p.files) \ Range(selectedFiles)])
     /\ resultUrls' = convertImageEnd(variant, resultUrls, o, outcome.ok)
     /\ UNCHANGED <<variant, game, toastProvider, historyStore, exports, probe, outputFormat, error>>

\* variant 2: the callback of the live timer iv runs
\* fileItem.progress = Math.min(fileItem.progress + 10, 90);
\* setSelectedFiles([...updatedFiles])
ProgressTick(iv) ==
  LET o == iv.entry
  IN /\ variant = 2
     /\ iv.ticks < MaxTicks
     /\ heap' = [heap EXCEPT ![o].progress =
                   IF @ + ProgressStep < ProgressCap THEN @ + ProgressStep
                   ELSE ProgressCap]
     /\ intervals' = (intervals \ {iv}) \cup {[iv EXCEPT !.ticks = @ + 1]}
     /\ selectedFiles' = iv.files
     /\ lastOp' = [Op("progress") EXCEPT !.target = o]
     /\ UNCHANGED <<variant, game, toastProvider, historyStore, resultUrls, objectUrls, exports, probe, outputFormat, isConverting, error, passes>>

\* variant 2: the reset button, rendered inside the queue block
\* setSelectedFiles([]); setError(null)
resetConverter ==
  /\ variant = 2
  /\ Len(selectedFiles) > 0
  /\ selectedFiles' = <<>>
  /\ error' = NoError
  /\ lastOp' = Op("resetConverter")
  /\ UNCHANGED <<variant, game, toastProvider, intervals, historyStore, resultUrls, objectUrls, exports, probe, heap, outputFormat, isConverting, passes>>

\* ------------------------------------------------------------------ export
\* the download button of an entry: variant 1 renders it for a completed
\* entry, variant 2 for a completed entry with a result
DownloadShown(o) ==
  /\ o \in Range(selectedFiles)
  /\ heap[o].status = "completed"
  /\ variant = 2 => heap[o].result # NoResult

\* variant 1: if (fileItem.status !== "completed" || !fileItem.result) return
\* variant 2: if (!fileItem.result) return
DownloadReturnsEarly(o) ==
  IF variant = 1
  THEN heap[o].status # "completed" \/ heap[o].result = NoResult
  ELSE heap[o].result = NoResult

\* What the anchor saves: a.download, the media type of the Blob behind
\* a.href, and fmt, the encoding of its bytes.
\* first revision: new Blob([fileItem.result], { type: `image/${outputFormat}` })
\*   under getOutputFileName(fileItem.file.name, outputFormat);
\* second revision: fileItem.result.url under fileItem.result.fileName.
SingleDownload(o) ==
  IF variant = 1
  THEN [name |-> getOutputFileName(heap[o].file.name, outputFormat),
        type |-> ImageType(outputFormat),
        fmt |-> heap[o].result.fmt, entries |-> <<>>]
  ELSE [name |-> heap[o].result.fileName,
        type |-> ImageType(heap[o].result.fmt),
        fmt |-> heap[o].result.fmt, entries |-> <<>>]

\* How the try block of the first revision's handleDownload can end: the
\* anchor is clicked, or a statement throws and the catch block runs.  The
\* second revision's handleDownload has no try block.
DownloadEnds == {"ok", "throws"}

\* One run of handleDownload's body on entry o: whether it returned early,
\* whether its try block threw (first revision), what the anchor saved, and
\* the alert's message afterwards: setError("Failed to download file") in the
\* catch block, untouched otherwise.
DownloadAttempt(o, end) ==
  LET refused == DownloadReturnsEarly(o)
      failed == ~refused /\ variant = 1 /\ end = "throws"
  IN [ok |-> ~refused /\ ~failed,
      failed |-> failed,
      download |-> IF refused \/ failed THEN NoDownload ELSE SingleDownload(o),
      error |-> IF failed THEN FailureMessage("Failed to download file")
                ELSE error]

\* faulty variation: a download that throws marks its entry as errored
handleDownloadMarksEntry(o, end) ==
  LET a == DownloadAttempt(o, end)
  IN /\ lastOp' = [Op("handleDownload") EXCEPT
                     !.target = o, !.ok = a.ok, !.failed = a.failed,
                     !.download = a.download]
     /\ error' = a.error
     /\ heap' = IF a.failed
                THEN [heap EXCEPT ![o].status = "error", ![o].error = a.error]
                ELSE heap
     /\ UNCHANGED <<variant, game, toastProvider, intervals, historyStore, resultUrls, objectUrls, exports, probe, selectedFiles,
                    outputFormat, isConverting, passes>>

\* handleDownload(fileItem): the anchor click; the only React state it writes
\* is the alert's message, in its catch block
handleDownload(o, end) ==
  LET a == DownloadAttempt(o, end)
  IN /\ lastOp' = [Op("handleDownload") EXCEPT
                     !.target = o, !.ok = a.ok, !.failed = a.failed,
                     !.download = a.download]
     /\ error' = a.error
     /\ UNCHANGED <<variant, game, toastProvider, intervals, historyStore, resultUrls, objectUrls, exports, probe, heap, selectedFiles,
                    outputFormat, isConverting, passes>>

\* the download button of an entry is pressed and the download goes through
ClickDownload == \E o \in Refs : DownloadShown(o) /\ handleDownload(o, "ok")

\* the download button of an entry is pressed and the try block throws
ClickDownloadThrows ==
  \E o \in Refs : DownloadShown(o) /\ variant = 1 /\ handleDownload(o, "throws")

\* const completedFiles = selectedFiles.filter(f => f.status === "completed")
completedFiles ==
  LET Completed(o) == heap[o].status = "completed"
  IN SelectSeq(selectedFiles, Completed)

\* the entries handleDownloadAll works on: the first revision takes
\* completedFiles, the second the entries of selectedFiles that have a result
BulkTargets ==
  IF variant = 1 THEN completedFiles
  ELSE LET HasResult(o) == heap[o].result # NoResult
       IN SelectSeq(selectedFiles, HasResult)

\* Download All: variant 1 disables the button, variant 2 does not render it,
\* while no entry is completed
DownloadAllShown == Len(completedFiles) > 0

\* a.download = `converted_images.zip`
ArchiveName ==
  <<"c", "o", "n", "v", "e", "r", "t", "e", "d", "_", "i", "m", "a", "g", "e",
    "s", ".", "z", "i", "p">>

\* How an awaited step of the archive export can end: import('jszip') or
\* zip.generateAsync resolves, or it rejects.
ExportEnds == {"ok", "rejected"}

\* zip.file(name, data): adds the file, or replaces the file of that name
ZipFile(zip, name, data) ==
  IF \E i \in DOMAIN zip : zip[i].name = name
  THEN [i \in DOMAIN zip |->
          IF zip[i].name = name THEN [name |-> name, data |-> data] ELSE zip[i]]
  ELSE Append(zip, [name |-> name, data |-> data])

\* for (const fileItem of completedFiles) { if (fileItem.result) { ...
\*   zip.file(getOutputFileName(fileItem.file.name, outputFormat), blobCopy) } }
RECURSIVE AddToZip(_, _, _)
AddToZip(zip, files, format) ==
  IF files = <<>> THEN zip
  ELSE LET item == heap[Head(files)]
           next == IF item.result = NoResult THEN zip
                   ELSE ZipFile(zip, getOutputFileName(item.file.name, format),
                                [type |-> ImageType(format),
                                 fmt |-> item.result.fmt])
       IN AddToZip(next, Tail(files), format)

\* the anchor click of the archive export
ArchiveDownload(zip) ==
  [name |-> ArchiveName, type |-> <<>>, fmt |-> "zip", entries |-> zip]

\* handleDownloadAll up to its first await or its return.
\* first revision: no completed file: return; more than one: await
\* import('jszip'); exactly one: handleDownload(completedFiles[0]).
\* second revision: setTimeout(() => handleDownload(fileItem), 100) for every
\* entry that has a result.
handleDownloadAll(end) ==
  LET targets == BulkTargets
      op == [Op("handleDownloadAll") EXCEPT !.bulk = Len(targets)]
  IN /\ IF variant = 1
        THEN IF Len(targets) = 0
             THEN /\ lastOp' = [op EXCEPT !.ok = FALSE]
                  /\ exports' = exports
                  /\ error' = error
             ELSE IF Len(targets) = 1
             THEN LET a == DownloadAttempt(targets[1], end)
                  IN /\ lastOp' = [op EXCEPT
                                     !.target = targets[1],
                                     !.ok = a.ok, !.failed = a.failed,
                                     !.download = a.download]
                     /\ exports' = exports
                     /\ error' = a.error
             ELSE /\ lastOp' = op
                  /\ error' = error
                  /\ exports' = Append(exports,
                        [kind |-> "zip", files |-> targets,
                         bulk |-> Len(targets),
                         format |-> outputFormat, stage |-> "import",
                         zip |-> <<>>])
        ELSE /\ lastOp' = op
             /\ error' = error
             /\ exports' = IF Len(targets) = 0 THEN exports
                           ELSE Append(exports,
                                  [kind |-> "timers", files |-> targets,
                                   bulk |-> Len(targets),
                                   format |-> outputFormat, stage |-> "timer",
                                   zip |-> <<>>])
     /\ UNCHANGED <<variant, game, toastProvider, intervals, historyStore, resultUrls, objectUrls, probe, heap, selectedFiles, outputFormat,
                    isConverting, passes>>

ClickDownloadAll ==
  /\ DownloadAllShown
  /\ Len(exports) < MaxExports
  /\ \E end \in DownloadEnds : handleDownloadAll(end)

\* first revision: an awaited step of the archive export settles and the
\* handler resumes: after import('jszip') it fills the archive and awaits
\* zip.generateAsync; after that it clicks the anchor.  A rejection lands in
\* the catch block: setError("Failed to process download").
ExportResumes(i, end) ==
  LET x == exports[i]
      op == [Op("export resumes") EXCEPT !.bulk = x.bulk]
  IN /\ x.kind = "zip"
     /\ IF end # "ok"
        THEN /\ exports' = RemoveAt(exports, i)
             /\ error' = FailureMessage("Failed to process download")
             /\ lastOp' = [op EXCEPT !.ok = FALSE, !.failed = TRUE]
        ELSE IF x.stage = "import"
        THEN /\ exports' = [exports EXCEPT
                              ![i].stage = "generate",
                              ![i].zip = AddToZip(<<>>, x.files, x.format)]
             /\ error' = error
             /\ lastOp' = op
        ELSE /\ exports' = RemoveAt(exports, i)
             /\ error' = error
             /\ lastOp' = [op EXCEPT !.download = ArchiveDownload(x.zip),
                                     !.serialized = TRUE]
     /\ UNCHANGED <<variant, game, toastProvider, intervals, historyStore, resultUrls, objectUrls, probe, heap, selectedFiles, outputFormat,
                    isConverting, passes>>

\* second revision: the earliest timer of a Download All fires:
\* handleDownload(fileItem)
DownloadTimerFires(i) ==
  LET x == exports[i]
      o == Head(x.files)
  IN /\ x.kind = "timers"
     /\ \A j \in 1..(i - 1) : exports[j].kind # "timers"
     /\ exports' = IF Len(x.files) = 1 THEN RemoveAt(exports, i)
                   ELSE [exports EXCEPT ![i].files = Tail(@)]
     /\ lastOp' = [Op("download timer") EXCEPT
                     !.bulk = x.bulk,
                     !.target = o,
                     !.ok = ~DownloadReturnsEarly(o),
                     !.download = IF DownloadReturnsEarly(o) THEN NoDownload
                                  ELSE SingleDownload(o)]
     /\ UNCHANGED <<variant, game, toastProvider, intervals, historyStore, resultUrls, objectUrls, probe, heap, selectedFiles, outputFormat,
                    isConverting, error, passes>>

\* ----------------------------------------------------------------- history
\* const dummyHistoryItems = [...]
dummyHistoryItems ==
  << [name |-> <<"I", "l", "l", "u", "s", "t", "r", "_", "3", "4", "8", "5", ".", "j", "p", "g">>,
      size |-> "3.5 Mb", type |-> "jpg"],
     [name |-> <<"i", "m", "g", "2", "0", "4", "5", ".", "p", "n", "g">>,
      size |-> "2.1 Mb", type |-> "png"],
     [name |-> <<"i", "c", "o", "n", "2", "4", ".", "s", "v", "g">>,
      size |-> "258 Kb", type |-> "svg"],
     [name |-> <<"a", "r", "t", "i", "c", "l", "e", ".", "d", "o", "c">>,
      size |-> "459 Kb", type |-> "doc"],
     [name |-> <<"p", "r", "e", "s", "e", "n", "t", "1", "9", ".", "p", "d", "f">>,
      size |-> "3.5 Mb", type |-> "pdf"],
     [name |-> <<"p", "h", "o", "t", "o", "1", ".", "j", "p", "g">>,
      size |-> "7.8 Mb", type |-> "jpg"] >>

\* what the history panel shows: the first revision renders
\* <RightPanel historyItems={dummyHistoryItems} />, the second renders no
\* history panel; no handler writes a history record.
historyItems == IF variant = 1 THEN dummyHistoryItems ELSE <<>>

\* ----------------------------------------------------------- history store
\* The store behind the history panel's historyItems, onDelete and onClearAll
\* props.  A record is a HistoryItem: id, originalName, convertedName,
\* originalSize, convertedSize, format, timestamp and the optional downloadUrl
\* (0: none), the reference to the output bytes the record owns.

\* creation times, in milliseconds
Times == {1000, 2001}

\* faulty variation: the text keeps whole seconds only
ToISOStringSeconds(t) == [sec |-> t \div 1000, ms |-> 0]

\* a timestamp as an ISO-8601 text: its seconds and its milliseconds
ToISOString(t) == [sec |-> t \div 1000, ms |-> t % 1000]

\* the Date an ISO-8601 text stands for
ParseDate(iso) == iso.sec * 1000 + iso.ms

\* the fields of a record that are persisted: all but the byte payload
Metadata(rec) ==
  [id |-> rec.id, originalName |-> rec.originalName,
   convertedName |-> rec.convertedName, originalSize |-> rec.originalSize,
   convertedSize |-> rec.convertedSize, format |-> rec.format,
   timestamp |-> rec.timestamp]

\* the serialized list: the metadata of every record, in order, the
\* timestamp as text
Serialize(items) ==
  [i \in 1..Len(items) |->
     [Metadata(items[i]) EXCEPT !.timestamp = ToISOString(@)]]

\* the list a well-formed text stands for; no record comes back with a
\* download reference
Deserialize(text) ==
  [i \in 1..Len(text) |->
     [id |-> text[i].id, originalName |-> text[i].originalName,
      convertedName |-> text[i].convertedName,
      originalSize |-> text[i].originalSize,
      convertedSize |-> text[i].convertedSize, format |-> text[i].format,
      timestamp |-> ParseDate(text[i].timestamp), downloadUrl |-> 0]]

\* the durable-storage write that follows every mutation of the list
Persist(items) == [state |-> "json", text |-> Serialize(items)]

\* the load at process start: absent or malformed data give an empty list
Load(key) ==
  IF key.state = "absent" THEN [items |-> <<>>, path |-> "absent"]
  ELSE IF key.state = "malformed" THEN [items |-> <<>>, path |-> "malformed"]
  ELSE [items |-> Deserialize(key.text), path |-> "parsed"]

\* faulty variation: clearAll writes an empty list under the key
ClearedKeyEmptyList == Persist(<<>>)

\* clearAll erases the durable-storage key
ClearedKey == NoKey

\* recordSuccess(entry, format): a new record is put in front of the list and
\* the list is persisted
recordSuccess(file, format, t) ==
  LET id == historyStore.nextId
      rec == [id |-> id, originalName |-> file.name,
              convertedName |-> getOutputFileName(file.name, format),
              originalSize |-> "2 KB", convertedSize |-> "1 KB",
              format |-> format, timestamp |-> t, downloadUrl |-> id]
      items == <<rec>> \o historyStore.items
  IN /\ id <= MaxRecords
     /\ historyStore' = [items |-> items, key |-> Persist(items),
                         refs |-> historyStore.refs \cup {id},
                         nextId |-> id + 1]
     /\ lastOp' = [Op("recordSuccess") EXCEPT !.target = id]
     /\ UNCHANGED <<variant, game, toastProvider, intervals, resultUrls, objectUrls, exports, probe, heap,
                    selectedFiles, outputFormat, isConverting, error, passes>>

\* remove(id), the panel's onDelete: the record's download reference is
\* released, the record removed and the list persisted
removeRecord(id) ==
  LET Keep(rec) == rec.id # id
      items == SelectSeq(historyStore.items, Keep)
      gone == { historyStore.items[i].downloadUrl :
                  i \in { j \in 1..Len(historyStore.items) :
                            historyStore.items[j].id = id } } \ {0}
  IN /\ historyStore' = [historyStore EXCEPT
                           !.items = items, !.key = Persist(items),
                           !.refs = @ \ gone]
     /\ lastOp' = [Op("removeRecord") EXCEPT !.target = id, !.released = gone]
     /\ UNCHANGED <<variant, game, toastProvider, intervals, resultUrls, objectUrls, exports, probe, heap,
                    selectedFiles, outputFormat, isConverting, error, passes>>

\* {historyItems.length > 0 && onClearAll && (<Button onClick={onClearAll}>)}
ClearAllShown == Len(historyStore.items) > 0

\* clearAll(), the panel's onClearAll: every download reference is released,
\* the list emptied and the storage key erased
clearAll ==
  /\ ClearAllShown
  /\ historyStore' = [historyStore EXCEPT
                        !.items = <<>>, !.key = ClearedKey, !.refs = {}]
  /\ lastOp' = [Op("clearAll") EXCEPT
                  !.released = historyStore.refs,
                  !.bulk = Len(historyStore.items)]
  /\ UNCHANGED <<variant, game, toastProvider, intervals, resultUrls, objectUrls, exports, probe, heap,
                 selectedFiles, outputFormat, isConverting, error, passes>>

\* The page is loaded again: the list is read from the storage key; the
\* output bytes of the session before are gone.
loadHistory ==
  LET loaded == Load(historyStore.key)
  IN /\ historyStore' = [historyStore EXCEPT
                           !.items = loaded.items, !.refs = {}]
     /\ lastOp' = [Op("loadHistory") EXCEPT
                     !.path = loaded.path,
                     !.ended = lastOp.op = "clearAll"]
     /\ UNCHANGED <<variant, game, toastProvider, intervals, resultUrls, objectUrls, exports, probe, heap,
                    selectedFiles, outputFormat, isConverting, error, passes>>

\* a conversion has succeeded and is recorded
RecordAdded ==
  \E file \in { f \in Candidates : IsValidImage(f) } :
    \E format \in OutputFormats : \E t \in Times :
      recordSuccess(file, format, t)

\* the delete button of a record of the panel
RecordDeleted ==
  \E i \in 1..Len(historyStore.items) : removeRecord(historyStore.items[i].id)

HistoryNext ==
  \/ RecordAdded
  \/ RecordDeleted
  \/ clearAll
  \/ loadHistory

HistorySpec == Init /\ [][HistoryNext]_vars

\* ------------------------------------------------------------------ toasts
\* A toast of the list is [key, id, duration]: key tells the objects of the
\* list apart (the order they were made in), id is the string addToast drew,
\* duration the optional field (0 when it is not given).  A timer is
\* [key, id, delay]: the setTimeout of the ToastComponent mounted for that
\* toast, which calls onRemoveAction(id) after delay ms.

\* the values Math.random().toString(36).substring(2, 11) is drawn from
ToastIds == {"t1", "t2"}

\* the duration fields of the toasts added: none given, or 3000
Durations == {0, 3000}

\* toast.duration || 5000
TimerDelay(duration) == IF duration = 0 THEN DefaultDuration ELSE duration

Toasts == toastProvider.toasts

\* faulty variation: the effect has no cleanup, a timer lives until it fires
UnmountKeepsTimers(timers, shown) == timers

\* return () => clearTimeout(timer): the ToastComponents of the toasts that
\* are rendered no longer unmount and their effects' cleanups run
Unmount(timers, shown) ==
  { tm \in timers : \E i \in 1..Len(shown) : shown[i].key = tm.key }

\* setToasts((prev) => [...prev, { ...toast, id }]); the ToastComponent
\* mounted for the new toast starts its timer in its effect
addToast(id, duration) ==
  LET key == toastProvider.made + 1
  IN /\ toastProvider.made < MaxToasts
     /\ toastProvider' =
          [toasts |-> Append(Toasts, [key |-> key, id |-> id,
                                      duration |-> duration]),
           timers |-> toastProvider.timers \cup
                        {[key |-> key, id |-> id, delay |-> TimerDelay(duration)]},
           made |-> key]
     /\ lastOp' = [Op("addToast") EXCEPT !.target = key, !.id = id]
     /\ UNCHANGED <<variant, game, intervals, historyStore, resultUrls, objectUrls,
                    exports, probe, heap, selectedFiles, outputFormat,
                    isConverting, error, passes>>

\* faulty variation: the toast at the head of the list goes, whatever its id
RemoveToastHead(toasts, id) ==
  IF toasts = <<>> THEN toasts ELSE Tail(toasts)

\* prev.filter((toast) => toast.id !== id)
RemoveToast(toasts, id) ==
  LET Keep(toast) == toast.id # id
  IN SelectSeq(toasts, Keep)

\* removeToast(id): setToasts((prev) => prev.filter(...)), then the render
\* that unmounts the ToastComponents of the toasts filtered out.  `fired` is
\* the timer whose callback made the call, if one did; `cause` who called.
removeToast(id, cause, fired) ==
  LET toasts == RemoveToast(Toasts, id)
  IN /\ toastProvider' =
          [toastProvider EXCEPT
             !.toasts = toasts,
             !.timers = Unmount(@ \ fired, toasts)]
     /\ lastOp' = [Op("removeToast") EXCEPT
                     !.env = cause, !.id = id,
                     !.ok = \E i \in 1..Len(Toasts) : Toasts[i].id = id,
                     !.bulk = Len(Toasts) - Len(toasts)]
     /\ UNCHANGED <<variant, game, intervals, historyStore, resultUrls, objectUrls,
                    exports, probe, heap, selectedFiles, outputFormat,
                    isConverting, error, passes>>

\* a consumer of useToast() adds a toast
ToastAdded ==
  \E id \in ToastIds : \E duration \in Durations : addToast(id, duration)

\* <button onClick={() => onRemoveAction(toast.id)}> of a toast on screen
ToastDismissed ==
  \E i \in 1..Len(Toasts) : removeToast(Toasts[i].id, "button", {})

\* a consumer of useToast() calls removeToast with some id
ToastRemoveCalled == \E id \in ToastIds : removeToast(id, "call", {})

\* the setTimeout callback of the ToastComponent made for the toast `key`
\* runs: onRemoveAction(toast.id)
ToastTimerFires(key) ==
  \E tm \in toastProvider.timers :
    /\ tm.key = key
    /\ removeToast(tm.id, "timer", {tm})

ToastTimeout == \E key \in 1..MaxToasts : ToastTimerFires(key)

ToastNext ==
  \/ ToastAdded
  \/ ToastDismissed
  \/ ToastRemoveCalled
  \/ ToastTimeout

ToastSpec == Init /\ [][ToastNext]_vars

\* Every timer that stays live fires: setTimeout runs its callback once the
\* delay is over.
ToastFairSpec ==
  ToastSpec /\ \A key \in 1..MaxToasts : WF_vars(ToastTimerFires(key))

\* -------------------------------------------------------------- the game
\* the effect's guard: if (!canvasRef.current || !gameStarted || isPaused ||
\* gameOver) return.  While it lets the effect through, the keydown listener
\* is attached and the animation frame is requested; its cleanup takes both
\* away.
LoopRunsWhilePaused(g) == g.gameStarted /\ ~g.gameOver

LoopRuns(g) == g.gameStarted /\ ~g.isPaused /\ ~g.gameOver

\* the effect body, run after a render that changed gameStarted, isPaused or
\* gameOver: player.x = canvas.width / 2 - player.width / 2;
\* player.y = canvas.height - 50
EffectRuns(g) ==
  IF LoopRuns(g)
  THEN [g EXCEPT !.ref.player.x = (CanvasWidth \div 2) - (PlayerWidth \div 2),
                 !.ref.player.y = CanvasHeight - PlayerBottom]
  ELSE g

\* a.x < b.x + b.width && a.x + a.width > b.x && a.y < b.y + b.height &&
\* a.y + a.height > b.y
Overlaps(a, aw, ah, b, bw, bh) ==
  /\ a.x < b.x + bw
  /\ a.x + aw > b.x
  /\ a.y < b.y + bh
  /\ a.y + ah > b.y

\* update(), bullets: an active bullet moves up and is switched off above
\* the canvas
MoveBullets(bullets) ==
  [i \in 1..Len(bullets) |->
     IF bullets[i].active
     THEN [bullets[i] EXCEPT !.y = @ - BulletSpeed,
                             !.active = ~(bullets[i].y - BulletSpeed < 0)]
     ELSE bullets[i]]

\* update(), enemies: an active enemy moves down; below the canvas it is
\* switched off and costs a life
MoveEnemies(enemies) ==
  [i \in 1..Len(enemies) |->
     IF enemies[i].active
     THEN [enemies[i] EXCEPT !.y = @ + EnemySpeed,
                             !.active = ~(enemies[i].y + EnemySpeed > CanvasHeight)]
     ELSE enemies[i]]

\* the enemies an update() switches off below the canvas
Escaped(enemies) ==
  { i \in 1..Len(enemies) :
      enemies[i].active /\ enemies[i].y + EnemySpeed > CanvasHeight }

\* bullets.filter(bullet => bullet.active), enemies.filter(...)
ActiveOnly(objects) ==
  LET Active(o) == o.active
  IN SelectSeq(objects, Active)

\* spawnEnemy() when now - lastEnemySpawn > enemySpawnInterval: a new enemy
\* at x = Math.random() * (canvas.width - 20), here the lane x, y = -20
SpawnEnemy(enemies, x) ==
  Append(enemies, [x |-> x, y |-> 0 - EnemySize, active |-> TRUE])

\* checkCollisions(), the inner loop of one bullet from enemy k on: every
\* active enemy the bullet overlaps is switched off and scores; the bullet
\* is switched off with the first, yet the loop over the enemies goes on
RECURSIVE BulletHits(_, _, _)
BulletHits(bullet, st, k) ==
  IF k > Len(st.enemies) THEN st
  ELSE IF st.enemies[k].active
          /\ Overlaps(bullet, BulletWidth, BulletHeight,
                      st.enemies[k], EnemySize, EnemySize)
       THEN BulletHits(bullet,
                       [st EXCEPT !.enemies[k].active = FALSE,
                                  !.hit = TRUE,
                                  !.score = @ + HitScore], k + 1)
       ELSE BulletHits(bullet, st, k + 1)

\* checkCollisions(), bullet-enemy collisions from bullet i on
RECURSIVE BulletCollisions(_, _)
BulletCollisions(st, i) ==
  IF i > Len(st.bullets) THEN st
  ELSE IF ~st.bullets[i].active THEN BulletCollisions(st, i + 1)
  ELSE LET one == BulletHits(st.bullets[i], [st EXCEPT !.hit = FALSE], 1)
       IN BulletCollisions(
            [one EXCEPT !.bullets[i].active = ~one.hit], i + 1)

\* checkCollisions(), the enemies that hit the player
Collided(player, enemies) ==
  { i \in 1..Len(enemies) :
      enemies[i].active /\ Overlaps(player, PlayerWidth, PlayerHeight,
                                    enemies[i], EnemySize, EnemySize) }

\* player.lives-- once for every enemy that escaped or hit the player
LivesAfter(lives, lost) == lives - lost

\* One animation frame: update() (draw() changes no state).  `spawn` tells
\* whether spawnEnemy() finds its interval over, x is the lane it draws.
\* setScore, setLives and setGameOver(true) follow the ref; the render that
\* setGameOver(true) causes runs the effect's cleanup before another frame
\* is due.
gameLoop(g, spawn, x) ==
  LET r == g.ref
      escaped == Escaped(r.enemies)
      moved == ActiveOnly(MoveEnemies(r.enemies))
      enemies == IF spawn THEN SpawnEnemy(moved, x) ELSE moved
      shot == BulletCollisions(
                [bullets |-> ActiveOnly(MoveBullets(r.bullets)),
                 enemies |-> enemies, score |-> r.player.score, hit |-> FALSE],
                1)
      collided == Collided(r.player, shot.enemies)
      lost == Cardinality(escaped) + Cardinality(collided)
      lives == LivesAfter(r.player.lives, lost)
  IN [g EXCEPT
        !.ref.bullets = shot.bullets,
        !.ref.enemies = [i \in 1..Len(shot.enemies) |->
                           IF i \in collided
                           THEN [shot.enemies[i] EXCEPT !.active = FALSE]
                           ELSE shot.enemies[i]],
        !.ref.player.score = shot.score,
        !.ref.player.lives = lives,
        !.ref.spawned = IF spawn THEN @ + 1 ELSE @,
        !.score = IF shot.score # r.player.score THEN shot.score ELSE @,
        !.lives = IF lost > 0 THEN lives ELSE @,
        !.gameOver = IF lost > 0 /\ lives <= 0 THEN TRUE ELSE @]

\* handleKeyDown(e): ArrowLeft and ArrowRight move the player by its speed,
\* one and a half times that with Shift held; the space bar shoots
handleKeyDown(g, key, shiftKey) ==
  LET player == g.ref.player
      moveDistance == IF shiftKey THEN (PlayerSpeed * 3) \div 2 ELSE PlayerSpeed
  IN CASE key = "ArrowLeft" ->
            [g EXCEPT !.ref.player.x =
               IF player.x - moveDistance < 0 THEN 0
               ELSE player.x - moveDistance]
       [] key = "ArrowRight" ->
            [g EXCEPT !.ref.player.x =
               IF player.x + moveDistance > CanvasWidth - PlayerWidth
               THEN CanvasWidth - PlayerWidth
               ELSE player.x + moveDistance]
       [] key = " " ->
            [g EXCEPT !.ref.bullets =
               Append(@, [x |-> player.x + (PlayerWidth \div 2) - 2,
                          y |-> player.y, active |-> TRUE]),
                      !.ref.shots = @ + 1]
       [] OTHER -> g

\* the keys pressed in the explored games, and the lanes enemies spawn in
Keys == {"ArrowLeft", "ArrowRight", " "}

EnemyLanes == {0}

\* The browser is about to paint: the requested animation frame, if one is
\* requested, runs gameLoop.
AnimationFrame ==
  /\ IF LoopRuns(game)
     THEN \E spawn \in BOOLEAN : \E x \in EnemyLanes :
            \* lastEnemySpawn = 0 makes the first spawnEnemy() of a game spawn
            /\ game.ref.spawned = 0 => spawn
            /\ spawn => /\ game.ref.spawned < MaxSpawns
                        /\ Len(ActiveOnly(MoveEnemies(game.ref.enemies)))
                             < MaxEnemies
            /\ game' = gameLoop(game, spawn, x)
            /\ lastOp' = [Op("gameLoop") EXCEPT
                            !.bulk = game.ref.player.lives
                                       - game'.ref.player.lives]
     ELSE /\ game' = game
          /\ lastOp' = Op("frame without a game loop")
  /\ UNCHANGED <<variant, toastProvider, intervals, historyStore, resultUrls,
                 objectUrls, exports, probe, heap, selectedFiles, outputFormat,
                 isConverting, error, passes>>

\* A key goes down: the listener, if it is attached, runs handleKeyDown.
KeyDown ==
  /\ \E key \in Keys : \E shiftKey \in BOOLEAN :
       IF LoopRuns(game)
       THEN /\ key = " " => game.ref.shots < MaxShots
            /\ game' = handleKeyDown(game, key, shiftKey)
            /\ lastOp' = [Op("handleKeyDown") EXCEPT !.env = key]
       ELSE /\ game' = game
            /\ lastOp' = [Op("key without a listener") EXCEPT !.env = key]
  /\ UNCHANGED <<variant, toastProvider, intervals, historyStore, resultUrls,
                 objectUrls, exports, probe, heap, selectedFiles, outputFormat,
                 isConverting, error, passes>>

\* the pause button, rendered while gameStarted && !gameOver:
\* setIsPaused(!isPaused)
TogglePause ==
  /\ game.gameStarted
  /\ ~game.gameOver
  /\ game' = EffectRuns([game EXCEPT !.isPaused = ~@])
  /\ lastOp' = Op("setIsPaused")
  /\ UNCHANGED <<variant, toastProvider, intervals, historyStore, resultUrls,
                 objectUrls, exports, probe, heap, selectedFiles, outputFormat,
                 isConverting, error, passes>>

\* the Start Game / Play Again button, rendered while !gameStarted ||
\* gameOver: gameStateRef.current = { ... }; setScore(0); setLives(3);
\* setGameOver(false); setGameStarted(true)
handleRestart ==
  /\ ~game.gameStarted \/ game.gameOver
  /\ game' = EffectRuns([game EXCEPT !.ref = NewGameState,
                                     !.score = 0,
                                     !.lives = StartLives,
                                     !.gameOver = FALSE,
                                     !.gameStarted = TRUE])
  /\ lastOp' = Op("handleRestart")
  /\ UNCHANGED <<variant, toastProvider, intervals, historyStore, resultUrls,
                 objectUrls, exports, probe, heap, selectedFiles, outputFormat,
                 isConverting, error, passes>>

GameNext ==
  \/ AnimationFrame
  \/ KeyDown
  \/ TogglePause
  \/ handleRestart

GameSpec == Init /\ [][GameNext]_vars

\* ------------------------------------------------------------ the program
\* a drop or a file-picker change with a non-empty FileList
SelectFiles == \E files \in Batches : handleFilesSelect(files)

\* the promise of a running pass's convertImage call settles
ConversionSettles ==
  \E i \in 1..Len(passes) : \E env \in Environments : Settle(i, env)

\* the progress timer of a running pass fires
TimerFires == \E iv \in intervals : ProgressTick(iv)

\* an awaited step of an archive export settles
ExportSettles ==
  \E i \in 1..Len(exports) : \E end \in ExportEnds : ExportResumes(i, end)

\* a timer of a Download All fires
ExportTimerFires == \E i \in 1..Len(exports) : DownloadTimerFires(i)

Next ==
  \/ SelectFiles
  \/ ClickRemove
  \/ SelectFormat
  \/ ClickConvertAll
  \/ ConversionSettles
  \/ TimerFires
  \/ resetConverter
  \/ ClickDownload

Spec == Init /\ [][Next]_vars

\* handleConvertAll called while an earlier call of it is suspended at an
\* await, with the closure of the current render; the call runs the handler's
\* own code, whatever the button shows.
InvokeConvertAll ==
  /\ Len(passes) >= 1
  /\ Len(passes) < MaxPasses
  /\ handleConvertAll

\* The queue and its bulk conversion, with handleConvertAll also callable
\* re-entrantly; the format stays as mounted and nothing is downloaded.
HandlerNext ==
  \/ SelectFiles
  \/ ClickRemove
  \/ ClickConvertAll
  \/ InvokeConvertAll
  \/ ConversionSettles
  \/ TimerFires
  \/ resetConverter

HandlerSpec == Init /\ [][HandlerNext]_vars

\* a drop or a file-picker change, with Math.random() free to repeat a value
SelectFilesAnyIds ==
  \E files \in Batches :
    \E ids \in [1..Len(ValidFiles(files)) -> RandomIds] :
      handleFilesSelectWith(files, ids)

\* The component with ids as Math.random() may hand them out.
IdNext ==
  \/ SelectFilesAnyIds
  \/ ClickRemove
  \/ SelectFormat
  \/ ClickConvertAll
  \/ ConversionSettles
  \/ TimerFires
  \/ resetConverter
  \/ ClickDownload

IdSpec == Init /\ [][IdNext]_vars

\* The component with its Download All button.
ExportNext ==
  \/ Next
  \/ ClickDownloadThrows
  \/ ClickDownloadAll
  \/ ExportSettles
  \/ ExportTimerFires

ExportSpec == Init /\ [][ExportNext]_vars

\* ------------------------------------------------- the file name derivation
\* File names: the strings of up to MaxNameLen characters over a lower-case
\* letter, an upper-case letter and the dot.
NameAlphabet == {"a", "B", "."}

Names == UNION { [1..n -> NameAlphabet] : n \in 0..MaxNameLen }

\* type OutputFormat = "webp" | "avif" | "jpeg" | "png"
AllFormats == {"webp", "avif", "jpeg", "png"}

\* The component before any event, and one file name and format about to be
\* handed to the derivation.
NameInit ==
  /\ Mounted
  /\ probe \in { [name |-> n, format |-> f, out |-> <<>>, done |-> FALSE] :
                   n \in Names, f \in AllFormats }

\* The derivation is applied: getOutputFileName in the first revision, the
\* fileName expression of convertImage in the second.
DeriveName ==
  /\ ~probe.done
  /\ probe' = [probe EXCEPT
                 !.out = IF variant = 1
                         THEN getOutputFileName(probe.name, probe.format)
                         ELSE ResultFileName(probe.name, probe.format),
                 !.done = TRUE]
  /\ lastOp' = Op("getOutputFileName")
  /\ UNCHANGED <<variant, game, toastProvider, intervals, historyStore, resultUrls, objectUrls, exports, heap, selectedFiles, outputFormat,
                 isConverting, error, passes>>

NameNext == DeriveName

NameSpec == NameInit /\ [][NameNext]_vars

\* The first revision with its convertImage taking every ending it has.
ConverterInit == Init /\ variant = 1

\* a suspended convertImage call settles, in any way it can
ConverterSettles ==
  \E i \in 1..Len(passes) : \E env \in ConverterEnvironments : Settle(i, env)

ConverterNext ==
  \/ SelectFiles
  \/ ClickRemove
  \/ SelectFormat
  \/ ClickConvertAll
  \/ ConverterSettles
  \/ ClickDownload

ConverterSpec == ConverterInit /\ [][ConverterNext]_vars

\* Every convertImage promise settles: img.onload or img.onerror fires and
\* canvas.toBlob calls back.
FairSpec == Spec /\ WF_vars(ConversionSettles)

\* ================================================================== claims
InQueue == Range(selectedFiles)

Statuses(o) == <<heap[o].status, heap'[o].status>>

\* the media type begins with the six characters "image/"
MediaTypeIsImage(f) ==
  /\ Len(f.type) >= 6
  /\ f.type[1] = "i" /\ f.type[2] = "m" /\ f.type[3] = "a"
  /\ f.type[4] = "g" /\ f.type[5] = "e" /\ f.type[6] = "/"

\* C1: handleFilesSelect(files) keeps the previous queue, unchanged and in
\* order, and appends exactly one new pending entry per candidate whose media
\* type starts with "image/", in candidate order; no other candidate gets an
\* entry.
C1_IntakeAppendsImages ==
  [][lastOp'.op = "handleFilesSelect" =>
       LET images == SelectSeq(lastOp'.batch, MediaTypeIsImage)
           n == Len(selectedFiles)
       IN /\ Len(selectedFiles') = n + Len(images)
          /\ SubSeq(selectedFiles', 1, n) = selectedFiles
          /\ \A o \in Refs : heap'[o] = heap[o]
          /\ \A k \in 1..Len(images) :
               LET o == selectedFiles'[n + k]
               IN /\ o \notin Refs
                  /\ \A j \in 1..Len(images) : j # k => selectedFiles'[n + j] # o
                  /\ heap'[o].file = images[k]
                  /\ heap'[o].status = "pending"
                  /\ heap'[o].result = NoResult
                  /\ heap'[o].error = NoError
  ]_vars

\* an intake of an image and a non-image on a queue that held an entry
C1_Witness ==
  /\ lastOp.op = "handleFilesSelect"
  /\ \E i, j \in DOMAIN lastOp.batch :
       MediaTypeIsImage(lastOp.batch[i]) /\ ~MediaTypeIsImage(lastOp.batch[j])
  /\ Len(selectedFiles) > Len(SelectSeq(lastOp.batch, MediaTypeIsImage))

\* C2: after handleFilesSelect on a batch with a rejected candidate, the
\* notification naming that candidate is shown, for each rejected candidate.
C2_RejectionsNotified ==
  lastOp.op = "handleFilesSelect" =>
    \A i \in DOMAIN lastOp.batch :
      ~MediaTypeIsImage(lastOp.batch[i]) =>
        error = [kind |-> "is not a valid image file", name |-> lastOp.batch[i].name]

\* C3 (as claimed): every status change is pending -> converting,
\* converting -> completed or converting -> error.
C3_ErroredIsTerminal ==
  [][\A o \in Refs :
       heap'[o].status # heap[o].status =>
         Statuses(o) \in { <<"pending", "converting">>,
                           <<"converting", "completed">>,
                           <<"converting", "error">> }
  ]_vars

\* C3 (amended): every status change is pending -> converting,
\* error -> converting, converting -> completed or converting -> error; a
\* completed entry keeps its status and no entry returns to pending.
C3_StatusTransitions ==
  [][\A o \in Refs :
       heap'[o].status # heap[o].status =>
         Statuses(o) \in { <<"pending", "converting">>,
                           <<"error", "converting">>,
                           <<"converting", "completed">>,
                           <<"converting", "error">> }
  ]_vars

\* a pass has just put an entry that failed earlier back to converting
C3_Witness ==
  /\ lastOp.op \in {"handleConvertAll", "settle"}
  /\ \E i \in 1..Len(passes) :
       LET o == passes[i].files[passes[i].cur]
       IN heap[o].status = "converting" /\ heap[o].error # NoError

\* C4: a completed entry is never converted again: in every step its status
\* stays completed (no pass starts a conversion of it) and its result stays
\* the same.
C4_CompletedNotReconverted ==
  [][\A o \in Refs :
       heap[o].status = "completed" =>
         /\ heap'[o].status = "completed"
         /\ heap'[o].result = heap[o].result
  ]_vars

\* a running pass has skipped a completed entry and works on a later one
C4_Witness ==
  \E i \in 1..Len(passes) :
    /\ passes[i].skipped > 0
    /\ \E j \in 1..(passes[i].cur - 1) :
         /\ heap[passes[i].files[j]].status = "completed"
         /\ heap[passes[i].files[j]].result # NoResult

\* C5: for every entry of the queue, result is present iff the status is
\* completed, error is present iff the status is error, and the two are never
\* both present.
C5_ResultErrorMatchStatus ==
  \A o \in InQueue :
    /\ heap[o].result # NoResult <=> heap[o].status = "completed"
    /\ heap[o].error # NoError <=> heap[o].status = "error"
    /\ ~(heap[o].result # NoResult /\ heap[o].error # NoError)

C7_Sequential ==
  /\ Cardinality({ o \in Refs : heap[o].status = "converting" }) <= 1
  /\ Len(passes) <= 1
  /\ \A i \in 1..Len(passes) :
       LET p == passes[i]
       IN /\ p.cur \in 1..Len(p.files)
          /\ heap[p.files[p.cur]].status = "converting"
          /\ \A j \in 1..(p.cur - 1) :
               heap[p.files[j]].status \in {"completed", "error"}
          /\ \A j \in (p.cur + 1)..Len(p.files) :
               heap[p.files[j]].status # "converting"

\* the first entry of a pass is in flight and the second waits
C7_Witness ==
  /\ Len(passes) = 1
  /\ passes[1].cur = 1
  /\ Len(passes[1].files) >= 2
  /\ heap[passes[1].files[2]].status = "pending"

\* C8: when the conversion of entry k fails, k becomes errored with the
\* failure's message, no other entry changes except that the next entry of
\* the pass that is not completed is started, and when the pass returns no
\* entry of it is left pending or converting.
C8_FailureIsolation ==
  /\ [](lastOp.ended => \A o \in InQueue : heap[o].status \in {"completed", "error"})
  /\ [][(lastOp'.op = "settle" /\ ~lastOp'.ok) =>
          LET k == lastOp'.target
              p == passes[1]
              after == { j \in (p.cur + 1)..Len(p.files) :
                           heap[p.files[j]].status # "completed" }
          IN /\ p.files[p.cur] = k
             /\ heap'[k].status = "error"
             /\ heap'[k].error = [kind |-> "Failed to load image", name |-> <<>>]
             /\ heap'[k].result = heap[k].result
             /\ \A j \in 1..(p.cur - 1) : heap'[p.files[j]] = heap[p.files[j]]
             /\ IF after = {}
                THEN /\ passes' = <<>>
                     /\ \A o \in Refs \ {k} : heap'[o] = heap[o]
                ELSE LET j == CHOOSE a \in after : \A b \in after : a <= b
                         o == p.files[j]
                     IN /\ Len(passes') = 1
                        /\ passes'[1].cur = j
                        /\ heap'[o].status = "converting"
                        /\ heap'[o].result = heap[o].result
                        /\ heap'[o].error = heap[o].error
                        /\ \A r \in Refs \ {k, o} : heap'[r] = heap[r]
     ]_vars

\* the first entry of a pass has failed and the second is being converted
C8_Witness ==
  /\ lastOp.op = "settle" /\ ~lastOp.ok
  /\ Len(passes) = 1
  /\ passes[1].cur = 2
  /\ lastOp.target = passes[1].files[1]
  /\ heap[lastOp.target].status = "error"
  /\ heap[passes[1].files[2]].status = "converting"

\* C9: a bulk pass that has started finishes and clears isConverting, whatever
\* conversions fail, and the flag is not set when no pass runs.
C9_PassFinishes ==
  /\ [](Len(passes) = 0 => ~isConverting)
  /\ (isConverting ~> ~isConverting)

\* a pass with a failed conversion has returned and the flag is clear
C9_Witness ==
  /\ lastOp.op = "settle"
  /\ lastOp.ended /\ ~lastOp.clean
  /\ ~isConverting

\* C10: when a pass over a queue of N entries returns and none of its
\* conversions has failed, the queue holds those N entries and each is
\* completed with a result.
C10_CleanPassCompletesAll ==
  [][(lastOp'.ended /\ lastOp'.clean) =>
       LET files == IF lastOp'.op = "settle" THEN passes[1].files
                    ELSE selectedFiles
       IN /\ selectedFiles' = files
          /\ \A j \in 1..Len(files) :
               /\ heap'[files[j]].status = "completed"
               /\ heap'[files[j]].result # NoResult
  ]_vars

\* a pass over two entries has returned without a failure
C10_Witness ==
  /\ lastOp.op = "settle"
  /\ lastOp.ended /\ lastOp.clean
  /\ Len(selectedFiles) = 2
  /\ \A o \in InQueue : heap[o].status = "completed"

\* C11: an entry enqueued while a bulk pass runs (it is in the queue and not
\* in the pass's snapshot) is not dropped from the queue by a step of the
\* pass, so it is still in the queue when the pass returns.
C11_EnqueuedDuringPassKept ==
  [][lastOp'.op \in {"settle", "progress"} =>
       \A i \in 1..Len(passes) :
         \A o \in Range(selectedFiles) \ Range(passes[i].files) :
           o \in Range(selectedFiles')
  ]_vars

\* C12: the entry removeFile has just taken out of the queue is not in the
\* queue after the next step either.
C12_RemovedStaysRemoved ==
  [][lastOp.op = "removeFile" =>
       \A o \in Refs :
         (heap[o].id = lastOp.target /\ o \notin Range(selectedFiles)) =>
           o \notin Range(selectedFiles')
  ]_vars

\* C13: when a conversion settles, every entry other than the one that was
\* converted keeps its status, result and error, except that the loop then
\* sets the status of the next entry it starts to converting; this holds also
\* when entries were removed from the queue while the conversion was in flight.
C13_SettleTouchesOneEntry ==
  [][lastOp'.op = "settle" =>
       LET k == lastOp'.target
           started == { passes'[i].files[passes'[i].cur] : i \in 1..Len(passes') }
       IN \A o \in Refs \ {k} :
            /\ heap'[o].result = heap[o].result
            /\ heap'[o].error = heap[o].error
            /\ \/ heap'[o].status = heap[o].status
               \/ o \in started /\ heap'[o].status = "converting"
  ]_vars

\* a conversion has settled after removeFile took a waiting entry of the
\* pass out of the queue (the first revision has no other way to empty a slot)
C13_Witness ==
  /\ variant = 1
  /\ lastOp.op = "settle"
  /\ \E o \in lastOp.restored : o # lastOp.target

\* C14: a conversion that settles successfully adds exactly one record to the
\* history and one that fails adds none, so a pass over N entries without a
\* failure leaves N new records in conversion order.
C14_HistoryPerConversion ==
  [][lastOp'.op = "settle" =>
       Len(historyItems') = Len(historyItems) + (IF lastOp'.ok THEN 1 ELSE 0)
  ]_vars

\* C15: a step that starts a conversion hands the converter the output
\* format that is selected at that moment.
C15_FormatAtConversionStart ==
  [][lastOp'.op \in {"handleConvertAll", "settle"} =>
       \A i \in 1..Len(passes') : passes'[i].format = outputFormat
  ]_vars

\* the name ends with "." and the characters of the format
HasExtension(name, fmt) ==
  LET ext == IF fmt = "webp" THEN <<".", "w", "e", "b", "p">>
             ELSE <<".", "p", "n", "g">>
  IN /\ Len(name) >= Len(ext)
     /\ SubSeq(name, Len(name) - Len(ext) + 1, Len(name)) = ext

\* C16: a completed entry is exported with the media type and the file
\* extension of the format its bytes were encoded in, whatever format is
\* selected when it is exported.
C16_ExportMatchesConversion ==
  (lastOp.op = "handleDownload" /\ lastOp.ok) =>
     LET o == lastOp.target
         fmt == heap[o].result.fmt
     IN /\ lastOp.download.type =
             <<"i", "m", "a", "g", "e", "/">> \o
               (IF fmt = "webp" THEN <<"w", "e", "b", "p">> ELSE <<"p", "n", "g">>)
        /\ HasExtension(lastOp.download.name, fmt)

\* the characters of name before its first dot, all of name if it has none
BeforeFirstDot(name) ==
  LET k == CHOOSE n \in 0..Len(name) :
             /\ \A i \in 1..n : name[i] # "."
             /\ n = Len(name) \/ name[n + 1] = "."
  IN SubSeq(name, 1, k)

\* "." and the lower-case name of the format
DotExtension(fmt) ==
  CASE fmt = "webp" -> <<".", "w", "e", "b", "p">>
    [] fmt = "avif" -> <<".", "a", "v", "i", "f">>
    [] fmt = "jpeg" -> <<".", "j", "p", "e", "g">>
    [] fmt = "png" -> <<".", "p", "n", "g">>

\* C17: the derived file name is the original name cut at its first dot,
\* followed by "." and the lower-case format name: a name with several dots
\* loses all after the first, a name without a dot is kept whole, and a name
\* that starts with a dot gives an empty stem.
C17_DerivedFileName ==
  probe.done =>
    /\ probe.out = BeforeFirstDot(probe.name) \o DotExtension(probe.format)
    /\ (\A i \in DOMAIN probe.name : probe.name[i] # ".") =>
          probe.out = probe.name \o DotExtension(probe.format)
    /\ (probe.name # <<>> /\ probe.name[1] = ".") =>
          probe.out = DotExtension(probe.format)

\* "a.B.a" to PNG has given "a.png"
C17_Witness ==
  /\ probe.done
  /\ probe.name = <<"a", ".", "B", ".", "a">>
  /\ probe.format = "png"
  /\ probe.out = <<"a", ".", "p", "n", "g">>

\* C19: Download All over no completed entry saves nothing; over exactly one
\* it saves what that entry's own download button saves; over more than one
\* it saves a single file, the archive "converted_images.zip", and only
\* after the archive has been serialized.
C19_BulkExport ==
  LET bulkStep == lastOp.op \in {"handleDownloadAll", "export resumes",
                                 "download timer"}
      saved == lastOp.download # NoDownload
  IN /\ (bulkStep /\ lastOp.bulk = 0) => ~saved
     /\ (bulkStep /\ lastOp.bulk = 1 /\ saved) =>
          /\ lastOp.download.fmt = heap[lastOp.target].result.fmt
          /\ lastOp.download.entries = <<>>
     /\ (bulkStep /\ lastOp.bulk > 1 /\ saved) =>
          /\ lastOp.download.name =
               <<"c", "o", "n", "v", "e", "r", "t", "e", "d", "_", "i", "m",
                 "a", "g", "e", "s", ".", "z", "i", "p">>
          /\ lastOp.serialized
          /\ exports = <<>>

\* C20: the archive of a bulk download holds one entry per completed entry
\* it was built from, in their order, each under that entry's derived file
\* name.
C20_ArchiveEntries ==
  \A i \in 1..Len(exports) :
    exports[i].stage = "generate" =>
      LET x == exports[i]
      IN /\ Len(x.zip) = Len(x.files)
         /\ \A j \in 1..Len(x.zip) :
              j <= Len(x.files) =>
                x.zip[j].name = BeforeFirstDot(heap[x.files[j]].file.name)
                                  \o DotExtension(x.format)
\* the entries whose convertImage call is in flight
InFlight == { passes[i].files[passes[i].cur] : i \in 1..Len(passes) }

\* C18: whenever a convertImage call of the first revision settles, resolved
\* or rejected, it has revoked the object URL it created for the source file
\* exactly once, and that URL is live no longer; the live object URLs are
\* never more than those of the calls still in flight.
C18_UrlRevokedOnce ==
  /\ (variant = 1 /\ lastOp.op = "settle") =>
        /\ lastOp.revoked = 1
        /\ lastOp.target \notin Range(objectUrls)
  /\ Range(objectUrls) \subseteq InFlight
  /\ Len(objectUrls) <= Len(passes)

\* a call that found no canvas context has settled, its URL revoked
C18_Witness ==
  /\ variant = 1
  /\ lastOp.op = "settle"
  /\ lastOp.env = "no context"
  /\ ~lastOp.ok
  /\ lastOp.revoked = 1
  /\ lastOp.target \notin Range(objectUrls)

\* the steps of handleDownload and handleDownloadAll
ExportOps ==
  {"handleDownload", "handleDownloadAll", "export resumes", "download timer"}

\* C21: no step of handleDownload or handleDownloadAll, whether it saves a
\* file, fails or returns early, changes an entry's status, result or error
\* or the queue's contents and order; the format, the converting flag and the
\* running passes stay as they are too, and the error notification changes
\* only when the export failed.
C21_ExportLeavesQueue ==
  [][lastOp'.op \in ExportOps =>
       /\ heap' = heap
       /\ selectedFiles' = selectedFiles
       /\ outputFormat' = outputFormat
       /\ isConverting' = isConverting
       /\ passes' = passes
       /\ (error' # error => lastOp'.failed)]_vars

\* a single download has thrown: the alert is set, the entry is still
\* completed and still in the queue
C21_Witness ==
  /\ lastOp.op = "handleDownload"
  /\ lastOp.failed
  /\ error = FailureMessage("Failed to download file")
  /\ lastOp.target \in Range(selectedFiles)
  /\ heap[lastOp.target].status = "completed"

\* C22: in every state each live object URL of a result belongs to an entry
\* that is still in the queue: removeFile and resetConverter leave no URL of
\* a removed entry's result unrevoked.
C22_RemovedResultsReleased ==
  \A u \in resultUrls : u[1] \in Range(selectedFiles)

\* the ids of the queue's entries are pairwise distinct
DistinctIds(h, sel) ==
  \A i, j \in 1..Len(sel) : i # j => h[sel[i]].id # h[sel[j]].id

\* C23: after any sequence of intakes the entries of the queue have pairwise
\* distinct ids, an entry's id never changes once assigned, and removeFile(id)
\* removes at most one entry.
C23_UniqueStableIds ==
  [][/\ DistinctIds(heap', selectedFiles')
     /\ \A o \in Refs : heap'[o].id = heap[o].id
     /\ lastOp'.op = "removeFile" =>
           Len(selectedFiles') >= Len(selectedFiles) - 1]_vars

\* C24: clearAll releases every record's download reference, empties the list
\* and leaves the storage key absent; a load that follows it gives an empty
\* list and finds the key absent, not an empty list stored under it.
C24_ClearAllErasesKey ==
  /\ lastOp.op = "clearAll" =>
        /\ historyStore.refs = {}
        /\ historyStore.items = <<>>
        /\ historyStore.key.state = "absent"
  /\ (lastOp.op = "loadHistory" /\ lastOp.ended) =>
        /\ historyStore.items = <<>>
        /\ lastOp.path = "absent"

\* the history has been reloaded right after a clearAll
C24_Witness ==
  /\ lastOp.op = "loadHistory"
  /\ lastOp.ended
  /\ lastOp.path = "absent"
  /\ historyStore.nextId > 2

\* metadata of a list, record by record
MetadataOf(items) == [i \in 1..Len(items) |-> Metadata(items[i])]

\* C25: serializing the history list and loading it again gives the same
\* records in the same order as far as id, originalName, convertedName,
\* originalSize, convertedSize, format and timestamp go; the download
\* reference is not part of the stored form.
C25_HistoryRoundTrip ==
  /\ MetadataOf(Load(Persist(historyStore.items)).items)
       = MetadataOf(historyStore.items)
  /\ historyStore.key.state = "json" =>
        MetadataOf(Load(historyStore.key).items) = MetadataOf(historyStore.items)
  /\ \A i \in 1..Len(historyStore.items) :
        Load(Persist(historyStore.items)).items[i].downloadUrl = 0

\* two records, one of them created off a whole second, have been loaded
\* back from the stored text
C25_Witness ==
  /\ lastOp.op = "loadHistory"
  /\ lastOp.path = "parsed"
  /\ Len(historyStore.items) = 2
  /\ \E i \in 1..2 : historyStore.items[i].timestamp % 1000 # 0
  /\ historyStore.items[1].id # historyStore.items[2].id

\* the timer iv belongs to a conversion that is still awaited
TimerOfRunningConversion(iv) ==
  \E i \in 1..Len(passes) :
    /\ passes[i].progressInterval = iv.id
    /\ passes[i].files[passes[i].cur] = iv.entry

\* C26: in the second revision every entry's progress is 0 while it is
\* pending or errored, between 0 and 90 while it is converting, and 100
\* exactly when it is completed; every live progress timer is the one of a
\* conversion still awaited, so none outlives its conversion.
C26_ProgressMatchesStatus ==
  variant = 2 =>
    /\ \A o \in Refs :
          /\ heap[o].status \in {"pending", "error"} => heap[o].progress = 0
          /\ heap[o].status = "converting" =>
                heap[o].progress \in 0..ProgressCap
          /\ heap[o].status = "completed" <=> heap[o].progress = ProgressDone
    /\ \A iv \in intervals : TimerOfRunningConversion(iv)

\* one entry is completed, its timer gone, and the next one is converting
\* with its timer having run
C26_Witness ==
  /\ variant = 2
  /\ \E o \in Refs :
        /\ heap[o].status = "completed"
        /\ heap[o].progress = ProgressDone
        /\ \A iv \in intervals : iv.entry # o
  /\ \E o \in Refs :
        /\ heap[o].status = "converting"
        /\ heap[o].progress = ProgressStep
        /\ \E iv \in intervals : iv.entry = o /\ iv.ticks > 0

\* the toast made as the key-th is in the list
ToastShown(key) == \E i \in 1..Len(Toasts) : Toasts[i].key = key

\* every toast in the list has its one live timer, set to its duration or to
\* 5000 ms, and every live timer is the one of a toast in the list
TimersMatchToasts ==
  /\ \A i \in 1..Len(Toasts) :
        \E tm \in toastProvider.timers :
          /\ tm = [key |-> Toasts[i].key, id |-> Toasts[i].id,
                   delay |-> IF Toasts[i].duration = 0 THEN DefaultDuration
                             ELSE Toasts[i].duration]
          /\ \A other \in toastProvider.timers : other.key = tm.key => other = tm
  /\ \A tm \in toastProvider.timers : ToastShown(tm.key)

\* C27: every toast added is removed from the list in the end, by its timer
\* or by a dismissal; a toast in the list has a live auto-dismiss timer of
\* its duration (5000 ms when none is given), a toast that has left the list
\* has none, and a timer that fires finds its toast in the list.
C27_ToastsGoAway ==
  /\ []TimersMatchToasts
  /\ [][(lastOp'.op = "removeToast" /\ lastOp'.env = "timer") => lastOp'.ok]_vars
  /\ \A key \in 1..MaxToasts : ToastShown(key) ~> ~ToastShown(key)

\* a timer has fired and taken its toast away while another toast, dismissed
\* by neither, is still shown with its timer
C27_Witness ==
  /\ lastOp.op = "removeToast"
  /\ lastOp.env = "timer"
  /\ lastOp.ok
  /\ Len(Toasts) = 1
  /\ toastProvider.made = MaxToasts
  /\ \E tm \in toastProvider.timers : tm.key = Toasts[1].key

\* place of the toast with that key in the list (0: not in it)
ToastPlace(toasts, key) ==
  IF \E i \in 1..Len(toasts) : toasts[i].key = key
  THEN CHOOSE i \in 1..Len(toasts) : toasts[i].key = key
  ELSE 0

\* C28: removeToast(id) takes the toasts with that id out of the list and
\* leaves every other toast in it, unchanged and in the same relative
\* order; for an id no toast of the list has, the list stays as it is;
\* addToast puts the new toast after all the toasts of the list.
C28_ToastListFrame ==
  [][/\ lastOp'.op = "removeToast" =>
          LET before == toastProvider.toasts
              after == toastProvider'.toasts
          IN /\ \A i \in 1..Len(after) : after[i].id # lastOp'.id
             /\ \A i \in 1..Len(before) :
                   before[i].id # lastOp'.id =>
                     \E j \in 1..Len(after) : after[j] = before[i]
             /\ \A j \in 1..Len(after) :
                   ToastPlace(before, after[j].key) # 0
             /\ \A j, k \in 1..Len(after) :
                   j < k => ToastPlace(before, after[j].key)
                              < ToastPlace(before, after[k].key)
             /\ (\A i \in 1..Len(before) : before[i].id # lastOp'.id) =>
                   after = before
     /\ lastOp'.op = "addToast" =>
          /\ Len(toastProvider'.toasts) = Len(toastProvider.toasts) + 1
          /\ SubSeq(toastProvider'.toasts, 1, Len(toastProvider.toasts))
               = toastProvider.toasts
          /\ Last(toastProvider'.toasts).id = lastOp'.id]_vars

\* the toast in the middle of three has been removed; the first and the last
\* are left, in that order
C28_Witness ==
  /\ lastOp.op = "removeToast"
  /\ lastOp.ok
  /\ lastOp.bulk = 1
  /\ Len(Toasts) = 2
  /\ Toasts[1].key = 1
  /\ Toasts[2].key = 3

\* C29: in the game the lives count, in gameStateRef and on screen, is never
\* below 0 nor above 3, whatever escapes or hits the player in a frame, and
\* the game is over as soon as no life is left.
C29_LivesNeverNegative ==
  /\ game.ref.player.lives \in 0..StartLives
  /\ game.lives \in 0..StartLives
  /\ game.ref.player.lives <= 0 => game.gameOver

\* the objects of the game: the player with its position, score and lives,
\* the bullets and the enemies, and the score and lives on screen
GameObjects(g) ==
  <<g.ref.player, g.ref.bullets, g.ref.enemies, g.score, g.lives>>

\* the game is not started, is paused or is over
GameIdle(g) == ~g.gameStarted \/ g.isPaused \/ g.gameOver

\* C30: while the game is not started, paused or over, a frame runs no
\* update and a key press does nothing: player, bullets, enemies, score and
\* lives stay as they are until the pause button resumes the game or
\* handleRestart starts a new one; handleRestart sets lives to 3 and score
\* to 0 and empties bullets and enemies.
C30_IdleGameFrozen ==
  [][/\ (GameIdle(game) /\ lastOp'.op \notin {"setIsPaused", "handleRestart"})
          => GameObjects(game') = GameObjects(game)
     /\ lastOp'.op \in {"gameLoop", "handleKeyDown"} => ~GameIdle(game)
     /\ lastOp'.op = "handleRestart" =>
          /\ game'.lives = StartLives
          /\ game'.ref.player.lives = StartLives
          /\ game'.score = 0
          /\ game'.ref.player.score = 0
          /\ game'.ref.bullets = <<>>
          /\ game'.ref.enemies = <<>>]_vars

\* a key has gone down in a paused game that has an enemy on the canvas
C30_Witness ==
  /\ lastOp.op = "key without a listener"
  /\ game.gameStarted
  /\ game.isPaused
  /\ ~game.gameOver
  /\ Len(game.ref.enemies) > 0

====
